---- MODULE Spec2Model ----
(***************************************************************************)
(* Authentication and error-normalisation core of we-meet-server:         *)
(* AuthService (register, login, validateUser), UsersService,             *)
(* UsersRepository over the "users" table, the global ValidationPipe,     *)
(* GlobalExceptionFilter, validateEnv and the access token.  Every await  *)
(* on the repository or on bcrypt is a scheduling point; everything       *)
(* between two awaits is one step.                                        *)
(*                                                                         *)
(* Spec    : two handlers run the suspending operations concurrently over *)
(*           a store that answers every call.                             *)
(* SpecSeq : one handler runs every operation, one call at a time, over a *)
(*           store whose calls may fail.                                  *)
(* SpecTok : one client registers, logs in, keeps the token and presents  *)
(*           it later, while the clock runs and the row is changed.       *)
(* SpecEnv : the application is started on an arbitrary environment.      *)
(***************************************************************************)
EXTENDS Integers, Sequences, FiniteSets, TLC

VARIABLES
    app,      \* the application: starting, running on a configuration, failed
    held,     \* the access token a client has kept from a login, if any
    users,    \* rows of table "users"
    nextId,   \* next fresh primary key (uuid)
    now,      \* the clock, in seconds; a write takes one
    pc,       \* per request handler: position in the running call
    req,      \* per request handler: the call and its arguments
    loc,      \* per request handler: locals of the running call
    res       \* per request handler: outcome of the last finished call

vars == <<app, held, users, nextId, now, pc, req, loc, res>>

----------------------------------------------------------------------------
(* Bounds *)

MaxTime == 2           \* writes that set a timestamp (insert, update)
NumSalts == 1          \* distinct salts bcrypt may draw

Procs == {"h1", "h2"}  \* request handlers running concurrently
Salts == 1..NumSalts

----------------------------------------------------------------------------
(* Values *)

Null == [null |-> TRUE]            \* findUnique's "no row"
NullName == "<null>"               \* SQL NULL in a string column
Undefined == "<undefined>"         \* absent optional string

Emails == {"a@b.com", "c@d.com"}
Passwords == {"secret1", "wrong12"}

Str(s) == [t |-> "string", v |-> s]
Arr(a) == [t |-> "array", v |-> a]

SALT_ROUNDS == 10

----------------------------------------------------------------------------
(* envSchema and validateEnv *)

NodeEnvs == {"development", "production", "test"}
DefaultPort == 3000
MinSecretLength == 32

ShortSecret == "0123456789abcdef0123456789abcde"      \* 31 characters
LongSecret == "0123456789abcdef0123456789abcdef"      \* 32 characters
DatabaseUrl == "postgresql://user:pw@db:5432/wemeet"
Urls == {DatabaseUrl}                                 \* what new URL() parses

\* process.env as ConfigModule hands it to validate: a variable that is
\* not set reads undefined
Environments ==
    [NODE_ENV : {Undefined, "development", "production", "test", "staging"},
     PORT : {Undefined, "8080", "0", "abc"},
     DATABASE_URL : {Undefined, DatabaseUrl, "not a url"},
     JWT_SECRET : {Undefined, ShortSecret, LongSecret},
     JWT_EXPIRES_IN : {Undefined, "1s", "1d"}]

Parsed(v) == [ok |-> TRUE, value |-> v]
Issue(code) == [ok |-> FALSE, code |-> code]

\* Number(v) for the strings in use: NaN is not a number
Coerce(v) ==
    CASE v = "8080" -> Parsed(8080)
      [] v = "0" -> Parsed(0)
      [] OTHER -> Issue("invalid_type")

\* z.enum([...]).default('development')
ParseNodeEnv(v) ==
    IF v = Undefined THEN Parsed("development")
    ELSE IF v \in NodeEnvs THEN Parsed(v)
    ELSE Issue("invalid_enum_value")

\* z.coerce.number().positive().default(3000)
ParsePort(v) ==
    IF v = Undefined THEN Parsed(DefaultPort)
    ELSE IF ~Coerce(v).ok THEN Coerce(v)
    ELSE IF Coerce(v).value > 0 THEN Coerce(v)
    ELSE Issue("too_small")

\* z.string().url()
ParseDatabaseUrl(v) ==
    IF v = Undefined THEN Issue("invalid_type")
    ELSE IF v \in Urls THEN Parsed(v)
    ELSE Issue("invalid_string")

\* variant: z.string() without .min(32)
ParseJwtSecret_AnyLength(v) ==
    IF v = Undefined THEN Issue("invalid_type") ELSE Parsed(v)

\* z.string().min(32)
ParseJwtSecret(v) ==
    IF v = Undefined THEN Issue("invalid_type")
    ELSE IF Len(v) >= MinSecretLength THEN Parsed(v)
    ELSE Issue("too_small")

\* variant: another default
ParseJwtExpiresIn_Default7d(v) ==
    IF v = Undefined THEN Parsed("7d") ELSE Parsed(v)

\* z.string().default('1d')
ParseJwtExpiresIn(v) ==
    IF v = Undefined THEN Parsed("1d") ELSE Parsed(v)

\* envSchema.parse(config): the parsed object, or the ZodError it throws
\* with the paths that failed
ValidateEnv(config) ==
    LET parsed == [NODE_ENV |-> ParseNodeEnv(config.NODE_ENV),
                   PORT |-> ParsePort(config.PORT),
                   DATABASE_URL |-> ParseDatabaseUrl(config.DATABASE_URL),
                   JWT_SECRET |-> ParseJwtSecret(config.JWT_SECRET),
                   JWT_EXPIRES_IN |->
                       ParseJwtExpiresIn(config.JWT_EXPIRES_IN)]
        failed == {k \in DOMAIN parsed : ~parsed[k].ok}
    IN IF failed = {}
       THEN [ok |-> TRUE, value |-> [k \in DOMAIN parsed |-> parsed[k].value]]
       ELSE [ok |-> FALSE,
             error |-> [name |-> "ZodError",
                        issues |-> [k \in failed |-> parsed[k].code]]]

\* the application: starting on an environment, running on the validated
\* configuration, or failed to start
Starting(env) == [status |-> "starting", env |-> env]
Running(config) == [status |-> "running", config |-> config]
Failed(error) == [status |-> "failed", error |-> error]

\* an environment that sets the required variables and no other
RequiredOnly ==
    [NODE_ENV |-> Undefined, PORT |-> Undefined, DATABASE_URL |-> DatabaseUrl,
     JWT_SECRET |-> LongSecret, JWT_EXPIRES_IN |-> Undefined]

----------------------------------------------------------------------------
(* bcrypt *)

\* bcrypt.hash(password, rounds) with the salt it drew: a self-contained digest
BcryptHash(password, rounds, salt) ==
    [fmt |-> "bcrypt", cost |-> rounds, salt |-> salt, pw |-> password]

\* a string that is not a bcrypt digest, stored as passwordHash
RawString(s) == [fmt |-> "raw", cost |-> 0, salt |-> 0, pw |-> s]

\* variant: the password is not compared, any bcrypt digest verifies
BcryptCompare_AnyDigest(password, digest) == digest.fmt = "bcrypt"

\* variant: arguments swapped, a plaintext is never a digest of a digest
BcryptCompare_Swapped(password, digest) == FALSE

\* bcrypt.compare(password, digest): false on a malformed digest
BcryptCompare(password, digest) ==
    /\ digest.fmt = "bcrypt"
    /\ BcryptHash(password, digest.cost, digest.salt) = digest

----------------------------------------------------------------------------
(* UserResponseDto *)

ExposedFields == {"id", "email", "name", "role", "createdAt", "updatedAt"}

\* variant: no class-level @Exclude, every column is copied
PlainToInstance_ExposeAll(user) == user

\* plainToInstance(UserResponseDto, user): class-level @Exclude, @Expose fields
PlainToInstance(user) ==
    [k \in (DOMAIN user) \cap ExposedFields |-> user[k]]

----------------------------------------------------------------------------
(* Exceptions *)

\* getResponse() of an HttpException: an object or a plain string
ObjectResponse(obj) == [type |-> "object", obj |-> obj]
StringResponse(s) == [type |-> "string", str |-> s]

\* new HttpException(response, status); text is exception.message
HttpExceptionOf(status, response, text) ==
    [kind |-> "HttpException",
     status |-> status,
     response |-> response,
     message |-> text,
     stack |-> "Error: " \o text \o " <frames>"]

\* HttpException.createBody for a string or array message
HttpException(status, message, description, text) ==
    HttpExceptionOf(status,
                    ObjectResponse([message |-> message, error |-> description,
                                    statusCode |-> status]),
                    text)

ConflictException(m) == HttpException(409, Str(m), "Conflict", m)
UnauthorizedException(m) == HttpException(401, Str(m), "Unauthorized", m)
NotFoundException(m) == HttpException(404, Str(m), "Not Found", m)
InternalServerErrorException(m) ==
    HttpException(500, Str(m), "Internal Server Error", m)
\* ValidationPipe's default exception factory: the flattened messages
BadRequestException(msgs) ==
    HttpException(400, Arr(msgs), "Bad Request", "Bad Request Exception")

\* an Error that is not an HttpException (ORM, driver)
ErrorValue(name, m) ==
    [kind |-> "Error", name |-> name, message |-> m,
     stack |-> name \o ": " \o m \o " <frames>"]

P2002 == ErrorValue("PrismaClientKnownRequestError",
                    "Unique constraint failed on the fields: (email)")
P2025 == ErrorValue("PrismaClientKnownRequestError",
                    "Record to update or delete does not exist")
StoreFault == ErrorValue("PrismaClientInitializationError",
                         "Cannot reach database server at db:5432")

\* a thrown value that is not an Error at all
ThrownString(s) == [kind |-> "Other", text |-> s]

----------------------------------------------------------------------------
(* GlobalExceptionFilter *)

INTERNAL_SERVER_ERROR == 500
GenericMessage == "Internal server error"

\* new Date().toISOString(): the wall clock is not tracked, every response
\* carries the instant it was built at
ToISOString(t) == [iso |-> t]
ResponseInstant == "<instant of the response>"

\* variant: the status of an HttpException is not read
FilterStatus_Always500(exception) == INTERNAL_SERVER_ERROR

FilterStatus(exception) ==
    IF exception.kind = "HttpException" THEN exception.status
    ELSE INTERNAL_SERVER_ERROR

FilterMessage(exception) ==
    IF exception.kind = "HttpException"
    THEN IF exception.response.type = "object"
         THEN IF "message" \in DOMAIN exception.response.obj
              THEN exception.response.obj.message
              ELSE Str(exception.message)
         ELSE Str(exception.response.str)
    ELSE IF exception.kind = "Error" THEN Str(exception.message)
    ELSE Str(GenericMessage)

FilterHasErrors(exception) ==
    /\ exception.kind = "HttpException"
    /\ exception.response.type = "object"
    /\ "errors" \in DOMAIN exception.response.obj

\* catch(exception, host): the one response sent and the one log entry
Catch(exception, method, url) ==
    LET base == [statusCode |-> FilterStatus(exception),
                 message |-> FilterMessage(exception),
                 timestamp |-> ToISOString(ResponseInstant),
                 path |-> url]
        body == IF FilterHasErrors(exception)
                THEN base @@ ("errors" :> exception.response.obj.errors)
                ELSE base
    IN [status |-> FilterStatus(exception),
        body |-> body,
        logged |-> [context |-> method \o " " \o url,
                    trace |-> IF exception.kind = "Other"
                              THEN exception.text
                              ELSE exception.stack]]

----------------------------------------------------------------------------
(* ValidationPipe with RegisterDto and LoginDto *)

MixedCaseEmail == "A@b.com"         \* a@b.com in another letter case
WellFormedEmails == Emails \cup {MixedCaseEmail}  \* what isEmail accepts
BadEmail == "bad-email"
ShortPassword == "short"

RegisterFields == {"email", "password", "name"}

\* request bodies POSTed to /auth/register
ValidRegisterBodies ==
    { [email |-> "a@b.com", password |-> "secret1"],
      [email |-> "a@b.com", password |-> "wrong12", name |-> "Al"],
      [email |-> "c@d.com", password |-> "secret1"] }

InvalidRegisterBodies ==
    { [email |-> BadEmail, password |-> "secret1"],
      [email |-> "a@b.com", password |-> ShortPassword],
      [email |-> "a@b.com", password |-> "secret1", role |-> "ADMIN"],
      [password |-> "secret1"],
      [email |-> "a@b.com"] }

\* a well-formed address that differs from a@b.com in letter case only
MixedCaseRegisterBodies ==
    { [email |-> MixedCaseEmail, password |-> "secret1"] }

RegisterBodies ==
    ValidRegisterBodies \cup InvalidRegisterBodies
        \cup MixedCaseRegisterBodies

Field(body, k) == IF k \in DOMAIN body THEN body[k] ELSE Undefined

SetToSeq(S) ==
    LET RECURSIVE Build(_)
        Build(T) == IF T = {} THEN <<>>
                    ELSE LET x == CHOOSE y \in T : TRUE
                         IN <<x>> \o Build(T \ {x})
    IN Build(S)

\* the messages of the checks that failed, in the order of the checks
Messages(checks) ==
    LET failed == SelectSeq(checks, LAMBDA c : c.bad)
    IN [i \in 1..Len(failed) |-> failed[i].msg]

\* whitelist with forbidNonWhitelisted: one message for every property the
\* DTO does not declare
NonWhitelisted(body, fields) ==
    LET unknown == SetToSeq((DOMAIN body) \ fields)
    IN [i \in 1..Len(unknown) |->
            "property " \o unknown[i] \o " should not exist"]

MinLengthMessage == "Password must be at least 6 characters long"

\* the decorators of RegisterDto, a property at a time, the decorator
\* nearest to the property first
RegisterConstraints(body) ==
    LET email == Field(body, "email")
        password == Field(body, "password")
    IN Messages(<<
          [bad |-> email = Undefined \/ email = "",
           msg |-> "email should not be empty"],
          [bad |-> email \notin WellFormedEmails,
           msg |-> "email must be an email"],
          [bad |-> password = Undefined \/ Len(password) < 6,
           msg |-> MinLengthMessage],
          [bad |-> password = Undefined \/ password = "",
           msg |-> "password should not be empty"],
          [bad |-> password = Undefined,
           msg |-> "password must be a string"] >>)

\* variant: whitelist alone, unknown properties are dropped without a word
ValidateRegister_Strip(body) == RegisterConstraints(body)

\* variant: RegisterDto without @MinLength
ValidateRegister_NoMinLength(body) ==
    NonWhitelisted(body, RegisterFields)
        \o SelectSeq(RegisterConstraints(body),
                     LAMBDA m : m # MinLengthMessage)

\* class-validator messages for a RegisterDto under whitelist,
\* forbidNonWhitelisted
ValidateRegister(body) ==
    NonWhitelisted(body, RegisterFields) \o RegisterConstraints(body)

LoginFields == {"email", "password"}

LoginDtos == [email : Emails, password : Passwords]

\* request bodies POSTed to /auth/login that LoginDto does not admit
InvalidLoginBodies ==
    { [email |-> BadEmail, password |-> "secret1"],
      [email |-> "a@b.com"],
      [password |-> "secret1"] }

MixedCaseLoginBodies ==
    { [email |-> MixedCaseEmail, password |-> "secret1"] }

LoginBodies == LoginDtos \cup InvalidLoginBodies \cup MixedCaseLoginBodies

\* LoginDto: email a non-empty email address, password a non-empty string
LoginConstraints(body) ==
    LET email == Field(body, "email")
        password == Field(body, "password")
    IN Messages(<<
          [bad |-> email = Undefined \/ email = "",
           msg |-> "email should not be empty"],
          [bad |-> email \notin WellFormedEmails,
           msg |-> "email must be an email"],
          [bad |-> password = Undefined \/ password = "",
           msg |-> "password should not be empty"],
          [bad |-> password = Undefined,
           msg |-> "password must be a string"] >>)

ValidateLogin(body) ==
    NonWhitelisted(body, LoginFields) \o LoginConstraints(body)

----------------------------------------------------------------------------
(* UsersRepository over table "users" with unique index users_email_key *)

\* variant: the lookup never finds a row
FindByEmail_Miss(email) == Null

\* findUnique({ where: { email } })
FindByEmail(email) ==
    IF \E u \in users : u.email = email
    THEN CHOOSE u \in users : u.email = email
    ELSE Null

\* variant: the lookup by id never finds a row
FindById_Miss(id) == Null

\* findUnique({ where: { id } })
FindById(id) ==
    IF \E u \in users : u.id = id
    THEN CHOOSE u \in users : u.id = id
    ELSE Null

\* variant: table without the unique index
ViolatesUnique_NoIndex(email) == FALSE

\* users_email_key rejects the insert
ViolatesUnique(email) == \E u \in users : u.email = email

\* variant: the column default is the other member of UserRole
NewRow_DefaultAdmin(data, t) ==
    [id |-> nextId,
     email |-> data.email,
     passwordHash |-> data.passwordHash,
     name |-> data.name,
     role |-> "ADMIN",
     createdAt |-> t,
     updatedAt |-> t]

\* the row user.create({ data }) inserts at time t: id, role, createdAt and
\* updatedAt are filled in by the store; name is the column register writes
\* (the migration at hand does not list it, the Prisma schema is not at hand)
NewRow(data, t) ==
    [id |-> nextId,
     email |-> data.email,
     passwordHash |-> data.passwordHash,
     name |-> data.name,
     role |-> "USER",
     createdAt |-> t,
     updatedAt |-> t]

----------------------------------------------------------------------------
(* JwtService *)

NoToken == [token |-> "none"]

\* the number of seconds a time span stands for
Seconds(span) ==
    CASE span = "1s" -> 1
      [] span = "1d" -> 86400
      [] span = "7d" -> 604800

\* HMAC of content under key
Hmac(key, content) == [key |-> key, content |-> content]

\* the options JwtModule was registered with
SignOptions ==
    [secret |-> app.config.JWT_SECRET,
     expiresIn |-> app.config.JWT_EXPIRES_IN]

\* jwt.sign(payload, secret, { expiresIn }) at time t
JwtSign(payload, options, t) ==
    LET content == [claims |-> payload,
                    iat |-> t,
                    exp |-> t + Seconds(options.expiresIn)]
    IN content @@ ("sig" :> Hmac(options.secret, content))

Content(token) == [k \in {"claims", "iat", "exp"} |-> token[k]]

\* jwt.verify(token, secret) at time t: the signature first, then the expiry
JwtVerify(token, secret, t) ==
    IF token.sig # Hmac(secret, Content(token))
    THEN [ok |-> FALSE, error |-> [name |-> "JsonWebTokenError",
                                   message |-> "invalid signature"]]
    ELSE IF t >= token.exp
    THEN [ok |-> FALSE, error |-> [name |-> "TokenExpiredError",
                                   message |-> "jwt expired"]]
    ELSE [ok |-> TRUE, claims |-> token.claims]

\* a token somebody else signed for user 1
ForgedToken ==
    JwtSign([userId |-> 1, email |-> "a@b.com"],
            [secret |-> "attacker-key", expiresIn |-> "1d"], 0)

----------------------------------------------------------------------------
(* Request handlers *)

NoReq == [op |-> "none"]
NoLoc == [step |-> "none"]
Pending == [out |-> "pending"]
NoLog == [context |-> "", trace |-> ""]

\* a handler returned: the framework sends status and the value as body
Returned(status, value, calls) ==
    [out |-> "return",
     http |-> [status |-> status, body |-> value, logged |-> NoLog],
     calls |-> calls]

\* a handler threw: GlobalExceptionFilter.catch sends the response
Thrown(exception, method, url, calls) ==
    [out |-> "throw",
     exception |-> exception,
     http |-> Catch(exception, method, url),
     calls |-> calls]

\* awaited collaborator calls a handler has made so far
NoCalls == [find |-> 0, hash |-> 0, create |-> 0, compare |-> 0, sign |-> 0]

\* the one store read every service method begins with
OneFind == [NoCalls EXCEPT !.find = 1]

\* no request has been made and the table is empty
Fresh ==
    /\ held = NoToken
    /\ users = {}
    /\ nextId = 1
    /\ now = 0
    /\ pc = [p \in Procs |-> "idle"]
    /\ req = [p \in Procs |-> NoReq]
    /\ loc = [p \in Procs |-> NoLoc]
    /\ res = [p \in Procs |-> Pending]

\* the lifetime set to one second
ShortLived == [RequiredOnly EXCEPT !.JWT_EXPIRES_IN = "1s"]

\* the requests are served by an application that has started
Serving(environments) ==
    /\ app \in {Running(ValidateEnv(env).value) : env \in environments}
    /\ Fresh

Init == Serving({RequiredOnly})

InitTok == Serving({RequiredOnly, ShortLived})

\* the application is started on some environment
InitEnv ==
    /\ app \in {Starting(env) : env \in Environments}
    /\ Fresh

\* ConfigModule.forRoot({ validate: validateEnv }) while AppModule is
\* built: a throw ends bootstrap before app.listen
Bootstrap ==
    /\ app.status = "starting"
    /\ app' = IF ValidateEnv(app.env).ok
              THEN Running(ValidateEnv(app.env).value)
              ELSE Failed(ValidateEnv(app.env).error)
    /\ UNCHANGED <<held, users, nextId, now, pc, req, loc, res>>

\* a second passes
Tick ==
    /\ now < MaxTime
    /\ now' = now + 1
    /\ UNCHANGED <<app, held, users, nextId, pc, req, loc, res>>

\* the call of p ends with outcome r and the client keeps token
FinishKeeping(p, r, token) ==
    /\ app.status = "running"
    /\ pc' = [pc EXCEPT ![p] = "idle"]
    /\ loc' = [loc EXCEPT ![p] = NoLoc]
    /\ res' = [res EXCEPT ![p] = r]
    /\ held' = token
    /\ UNCHANGED app

\* the call of p ends with outcome r
Finish(p, r) == FinishKeeping(p, r, held)

\* the call of p suspends at its next await
Suspend(p, at, l) ==
    /\ app.status = "running"
    /\ pc' = [pc EXCEPT ![p] = at]
    /\ loc' = [loc EXCEPT ![p] = l]
    /\ res' = [res EXCEPT ![p] = Pending]
    /\ UNCHANGED <<app, held>>

RegisterUrl == "/auth/register"
LoginUrl == "/auth/login"

\* POST /auth/register with a body the ValidationPipe rejects
RegisterRejected(p, body) ==
    /\ pc[p] = "idle"
    /\ ValidateRegister(body) # <<>>
    /\ req' = [req EXCEPT ![p] = [op |-> "register", body |-> body]]
    /\ Finish(p, Thrown(BadRequestException(ValidateRegister(body)),
                        "POST", RegisterUrl, NoCalls))
    /\ UNCHANGED <<users, nextId, now>>

\* variant: register goes on to the hash whatever the lookup returned
RegisterLookup_NoCheck(p, body, fault) ==
    /\ pc[p] = "idle"
    /\ ValidateRegister(body) = <<>>
    /\ req' = [req EXCEPT ![p] =
                 [op |-> "register", body |-> body]]
    /\ IF fault
       THEN Finish(p, Thrown(StoreFault, "POST", RegisterUrl, OneFind))
       ELSE Suspend(p, "reg_hash", [step |-> "hash", calls |-> OneFind])
    /\ UNCHANGED <<users, nextId, now>>

\* AuthService.register up to the end of await findByEmail
RegisterLookup(p, body, fault) ==
    /\ pc[p] = "idle"
    /\ ValidateRegister(body) = <<>>
    /\ req' = [req EXCEPT ![p] =
                 [op |-> "register", body |-> body]]
    /\ IF fault
       THEN Finish(p, Thrown(StoreFault, "POST", RegisterUrl, OneFind))
       ELSE IF FindByEmail(body.email) # Null
       THEN Finish(p, Thrown(ConflictException("Email already exists"),
                             "POST", RegisterUrl, OneFind))
       ELSE Suspend(p, "reg_hash", [step |-> "hash", calls |-> OneFind])
    /\ UNCHANGED <<users, nextId, now>>

\* variant: when bcrypt fails the password itself is kept
HashPassword_Fallback(password, salt, fails) ==
    IF fails
    THEN [ok |-> TRUE, passwordHash |-> RawString(password)]
    ELSE [ok |-> TRUE,
          passwordHash |-> BcryptHash(password, SALT_ROUNDS, salt)]

\* try { passwordHash = await bcrypt.hash(password, SALT_ROUNDS) }
\* catch { throw new InternalServerErrorException(...) }
HashPassword(password, salt, fails) ==
    IF fails
    THEN [ok |-> FALSE,
          exception |->
              InternalServerErrorException("Failed to hash password")]
    ELSE [ok |-> TRUE,
          passwordHash |-> BcryptHash(password, SALT_ROUNDS, salt)]

\* await bcrypt.hash(password, SALT_ROUNDS) inside try/catch
RegisterHash(p, salt, fails) ==
    /\ pc[p] = "reg_hash"
    /\ LET calls == [loc[p].calls EXCEPT !.hash = @ + 1]
           hashed == HashPassword(req[p].body.password, salt, fails)
       IN IF ~hashed.ok
          THEN Finish(p, Thrown(hashed.exception,
                                "POST", RegisterUrl, calls))
          ELSE Suspend(p, "reg_create",
                   [step |-> "create", calls |-> calls,
                    passwordHash |-> hashed.passwordHash])
    /\ UNCHANGED <<users, nextId, now, req>>

\* await usersRepository.create(...) and the return of the profile
RegisterCreate(p, fault) ==
    /\ pc[p] = "reg_create"
    /\ LET calls == [loc[p].calls EXCEPT !.create = @ + 1]
           name == Field(req[p].body, "name")
           data == [email |-> req[p].body.email,
                    passwordHash |-> loc[p].passwordHash,
                    name |-> IF name \in {Undefined, ""}
                             THEN NullName ELSE name]
           row == NewRow(data, now + 1)
       IN IF fault
          THEN /\ Finish(p, Thrown(StoreFault, "POST", RegisterUrl, calls))
               /\ UNCHANGED <<users, nextId, now>>
          ELSE IF ViolatesUnique(data.email)
          THEN /\ Finish(p, Thrown(P2002, "POST", RegisterUrl, calls))
               /\ UNCHANGED <<users, nextId, now>>
          ELSE /\ now < MaxTime
               /\ users' = users \cup {row}
               /\ nextId' = nextId + 1
               /\ now' = now + 1
               /\ Finish(p, Returned(201, PlainToInstance(row), calls))
    /\ UNCHANGED req

\* variant: the unknown email is reported as such
LoginNoUser_Reveals == NotFoundException("User not found")

\* login, no row for the email
LoginNoUser == UnauthorizedException("Invalid credentials")

\* login, bcrypt.compare said no
LoginBadPassword == UnauthorizedException("Invalid credentials")

\* POST /auth/login with a body the ValidationPipe rejects
LoginRejected(p, body) ==
    /\ pc[p] = "idle"
    /\ ValidateLogin(body) # <<>>
    /\ req' = [req EXCEPT ![p] = [op |-> "login", body |-> body]]
    /\ Finish(p, Thrown(BadRequestException(ValidateLogin(body)),
                        "POST", LoginUrl, NoCalls))
    /\ UNCHANGED <<users, nextId, now>>

\* variant: a failed lookup is caught and treated as no row
LoginLookup_Swallow(p, dto, fault) ==
    /\ pc[p] = "idle"
    /\ ValidateLogin(dto) = <<>>
    /\ req' = [req EXCEPT ![p] = [op |-> "login", body |-> dto]]
    /\ IF fault \/ FindByEmail(dto.email) = Null
       THEN Finish(p, Thrown(LoginNoUser, "POST", LoginUrl, OneFind))
       ELSE Suspend(p, "login_compare",
                    [step |-> "compare", calls |-> OneFind,
                     user |-> FindByEmail(dto.email)])
    /\ UNCHANGED <<users, nextId, now>>

\* AuthService.login up to the end of await findByEmail
LoginLookup(p, dto, fault) ==
    /\ pc[p] = "idle"
    /\ ValidateLogin(dto) = <<>>
    /\ req' = [req EXCEPT ![p] = [op |-> "login", body |-> dto]]
    /\ IF fault
       THEN Finish(p, Thrown(StoreFault, "POST", LoginUrl, OneFind))
       ELSE IF FindByEmail(dto.email) = Null
       THEN Finish(p, Thrown(LoginNoUser, "POST", LoginUrl, OneFind))
       ELSE Suspend(p, "login_compare",
                    [step |-> "compare", calls |-> OneFind,
                     user |-> FindByEmail(dto.email)])
    /\ UNCHANGED <<users, nextId, now>>

\* variant: the role travels in the token as well
JwtPayload_WithRole(user) ==
    [userId |-> user.id, email |-> user.email, role |-> user.role]

\* const payload: JwtPayload = { userId: user.id, email: user.email }
JwtPayload(user) == [userId |-> user.id, email |-> user.email]

\* jwtService.sign(payload)
Sign(payload) == JwtSign(payload, SignOptions, now)

\* variant: a successful login stores the digest again at a higher cost
LoginCompare_Rehash(p, keep) ==
    /\ pc[p] = "login_compare"
    /\ LET user == loc[p].user
           isPasswordValid ==
               BcryptCompare(req[p].body.password, user.passwordHash)
           calls == [loc[p].calls EXCEPT !.compare = @ + 1]
       IN IF ~isPasswordValid
          THEN /\ Finish(p, Thrown(LoginBadPassword, "POST", LoginUrl, calls))
               /\ UNCHANGED users
          ELSE /\ FinishKeeping(p, Returned(200,
                      [user |-> PlainToInstance(user),
                       accessToken |-> Sign(JwtPayload(user))],
                      [calls EXCEPT !.sign = @ + 1]),
                   IF keep THEN Sign(JwtPayload(user)) ELSE held)
               /\ users' = (users \ {user}) \cup
                     {[user EXCEPT !.passwordHash.cost = SALT_ROUNDS + 1]}
    /\ UNCHANGED <<nextId, now, req>>

\* await bcrypt.compare, jwtService.sign and the return; the client keeps
\* the token or not
LoginCompare(p, keep) ==
    /\ pc[p] = "login_compare"
    /\ LET user == loc[p].user
           isPasswordValid ==
               BcryptCompare(req[p].body.password, user.passwordHash)
           payload == JwtPayload(user)
           accessToken == Sign(payload)
           calls == [loc[p].calls EXCEPT !.compare = @ + 1]
       IN IF ~isPasswordValid
          THEN Finish(p, Thrown(LoginBadPassword, "POST", LoginUrl, calls))
          ELSE FinishKeeping(p, Returned(200,
                      [user |-> PlainToInstance(user),
                       accessToken |-> accessToken],
                      [calls EXCEPT !.sign = @ + 1]),
                   IF keep THEN accessToken ELSE held)
    /\ UNCHANGED <<users, nextId, now, req>>

ProfileUrl == "/profile"

\* payloads of tokens the guard has verified: ids the store has handed out
TokenPayloads == [userId : 1..(nextId - 1), email : Emails]

\* AuthService.validateUser(payload) as the answer to GET /profile
ValidateUserResult(payload, fault) ==
    IF fault
    THEN Thrown(StoreFault, "GET", ProfileUrl, OneFind)
    ELSE IF FindById(payload.userId) = Null
    THEN Thrown(UnauthorizedException("User not found"),
                "GET", ProfileUrl, OneFind)
    ELSE Returned(200, PlainToInstance(FindById(payload.userId)), OneFind)

\* AuthService.validateUser for the payload of a verified token
ValidateUser(p, payload, fault) ==
    /\ pc[p] = "idle"
    /\ req' = [req EXCEPT ![p] = [op |-> "validateUser", body |-> payload]]
    /\ Finish(p, ValidateUserResult(payload, fault))
    /\ UNCHANGED <<users, nextId, now>>

\* new UnauthorizedException(): what the guard throws for a token that
\* does not verify
GuardRefusal ==
    HttpExceptionOf(401,
        ObjectResponse([message |-> Str("Unauthorized"), statusCode |-> 401]),
        "Unauthorized")

\* the tokens a client may present: the one it kept, or a forged one
Presentable == ({held} \ {NoToken}) \cup {ForgedToken}

\* JwtAuthGuard on GET /profile: verify the bearer token, then validateUser
Authenticate(p, token, fault) ==
    /\ pc[p] = "idle"
    /\ req' = [req EXCEPT ![p] = [op |-> "authenticate", token |-> token]]
    /\ LET verified == JwtVerify(token, app.config.JWT_SECRET, now)
       IN IF ~verified.ok
          THEN Finish(p, Thrown(GuardRefusal, "GET", ProfileUrl, NoCalls))
          ELSE Finish(p, ValidateUserResult(verified.claims, fault))
    /\ UNCHANGED <<users, nextId, now>>

----------------------------------------------------------------------------
(* UsersService *)

UsersUrl == "/users"
Ids == 1..MaxTime

\* CreateUserDto values handed to UsersService.create
CreateDtos == { [email |-> "a@b.com", passwordHash |-> RawString("secret1")] }

\* variant: UpdateUserDto also declares email
UpdateDtos_WithEmail ==
    { [passwordHash |-> RawString("newpass"), email |-> "a@b.com"] }

\* UpdateUserDto values: passwordHash is optional
UpdateDtos == { [passwordHash |-> RawString("newpass")] }

NotFoundMessage(id) == "User with ID " \o ToString(id) \o " not found"

\* UsersService.create up to the end of await findByEmail
UsersCreateLookup(p, dto, fault) ==
    /\ pc[p] = "idle"
    /\ req' = [req EXCEPT ![p] = [op |-> "users.create", body |-> dto]]
    /\ IF fault
       THEN Finish(p, Thrown(StoreFault, "POST", UsersUrl, OneFind))
       ELSE IF FindByEmail(dto.email) # Null
       THEN Finish(p, Thrown(ConflictException("Email already exists"),
                             "POST", UsersUrl, OneFind))
       ELSE Suspend(p, "ucreate_insert",
                    [step |-> "create", calls |-> OneFind])
    /\ UNCHANGED <<users, nextId, now>>

\* await usersRepository.create(createUserDto) and the return
UsersCreateInsert(p, fault) ==
    /\ pc[p] = "ucreate_insert"
    /\ LET calls == [loc[p].calls EXCEPT !.create = @ + 1]
           dto == req[p].body
           data == [email |-> dto.email,
                    passwordHash |-> dto.passwordHash,
                    name |-> IF "name" \in DOMAIN dto
                             THEN dto.name ELSE NullName]
           row == NewRow(data, now + 1)
       IN IF fault
          THEN /\ Finish(p, Thrown(StoreFault, "POST", UsersUrl, calls))
               /\ UNCHANGED <<users, nextId, now>>
          ELSE IF ViolatesUnique(data.email)
          THEN /\ Finish(p, Thrown(P2002, "POST", UsersUrl, calls))
               /\ UNCHANGED <<users, nextId, now>>
          ELSE /\ now < MaxTime
               /\ users' = users \cup {row}
               /\ nextId' = nextId + 1
               /\ now' = now + 1
               /\ Finish(p, Returned(201, PlainToInstance(row), calls))
    /\ UNCHANGED req

\* rows ordered by createdAt, newest first
RECURSIVE OrderByCreatedAtDesc(_)
OrderByCreatedAtDesc(rows) ==
    IF rows = {} THEN <<>>
    ELSE LET newest == CHOOSE u \in rows :
                          \A v \in rows : v.createdAt <= u.createdAt
         IN <<newest>> \o OrderByCreatedAtDesc(rows \ {newest})

\* UsersService.findAll
UsersFindAll(p, fault) ==
    /\ pc[p] = "idle"
    /\ req' = [req EXCEPT ![p] = [op |-> "users.findAll"]]
    /\ IF fault
       THEN Finish(p, Thrown(StoreFault, "GET", UsersUrl, OneFind))
       ELSE LET rows == OrderByCreatedAtDesc(users)
            IN Finish(p, Returned(200,
                   [i \in 1..Len(rows) |-> PlainToInstance(rows[i])],
                   OneFind))
    /\ UNCHANGED <<users, nextId, now>>

\* UsersService.findOne
UsersFindOne(p, id, fault) ==
    /\ pc[p] = "idle"
    /\ req' = [req EXCEPT ![p] = [op |-> "users.findOne", id |-> id]]
    /\ IF fault
       THEN Finish(p, Thrown(StoreFault, "GET", UsersUrl, OneFind))
       ELSE IF FindById(id) = Null
       THEN Finish(p, Thrown(NotFoundException(NotFoundMessage(id)),
                             "GET", UsersUrl, OneFind))
       ELSE Finish(p, Returned(200, PlainToInstance(FindById(id)), OneFind))
    /\ UNCHANGED <<users, nextId, now>>

\* variant: update without the existence check
UsersUpdateCheck_NoCheck(p, id, dto, fault) ==
    /\ pc[p] = "idle"
    /\ req' = [req EXCEPT ![p] =
                 [op |-> "users.update", id |-> id, body |-> dto]]
    /\ IF fault
       THEN Finish(p, Thrown(StoreFault, "PATCH", UsersUrl, OneFind))
       ELSE Suspend(p, "update_write", [step |-> "update"])
    /\ UNCHANGED <<users, nextId, now>>

\* UsersService.update up to the end of await this.findOne(id)
UsersUpdateCheck(p, id, dto, fault) ==
    /\ pc[p] = "idle"
    /\ req' = [req EXCEPT ![p] =
                 [op |-> "users.update", id |-> id, body |-> dto]]
    /\ IF fault
       THEN Finish(p, Thrown(StoreFault, "PATCH", UsersUrl, OneFind))
       ELSE IF FindById(id) = Null
       THEN Finish(p, Thrown(NotFoundException(NotFoundMessage(id)),
                             "PATCH", UsersUrl, OneFind))
       ELSE Suspend(p, "update_write", [step |-> "update"])
    /\ UNCHANGED <<users, nextId, now>>

\* the row user.update({ where: { id }, data }) leaves at time t
UpdatedRow(row, data, t) ==
    [k \in DOMAIN row |->
        IF k \in DOMAIN data THEN data[k]
        ELSE IF k = "updatedAt" THEN t
        ELSE row[k]]

\* await usersRepository.update(id, updateUserDto) and the return
UsersUpdateWrite(p, fault) ==
    /\ pc[p] = "update_write"
    /\ LET old == FindById(req[p].id)
           row == UpdatedRow(old, req[p].body, now + 1)
       IN IF fault
          THEN /\ Finish(p, Thrown(StoreFault, "PATCH", UsersUrl, OneFind))
               /\ UNCHANGED <<users, now>>
          ELSE IF old = Null
          THEN /\ Finish(p, Thrown(P2025, "PATCH", UsersUrl, OneFind))
               /\ UNCHANGED <<users, now>>
          ELSE /\ now < MaxTime
               /\ users' = (users \ {old}) \cup {row}
               /\ now' = now + 1
               /\ Finish(p, Returned(200, PlainToInstance(row), OneFind))
    /\ UNCHANGED <<nextId, req>>

\* UsersService.remove up to the end of await this.findOne(id)
UsersRemoveCheck(p, id, fault) ==
    /\ pc[p] = "idle"
    /\ req' = [req EXCEPT ![p] = [op |-> "users.remove", id |-> id]]
    /\ IF fault
       THEN Finish(p, Thrown(StoreFault, "DELETE", UsersUrl, OneFind))
       ELSE IF FindById(id) = Null
       THEN Finish(p, Thrown(NotFoundException(NotFoundMessage(id)),
                             "DELETE", UsersUrl, OneFind))
       ELSE Suspend(p, "remove_write", [step |-> "delete"])
    /\ UNCHANGED <<users, nextId, now>>

\* await usersRepository.delete(id); remove returns void
UsersRemoveWrite(p, fault) ==
    /\ pc[p] = "remove_write"
    /\ LET old == FindById(req[p].id)
       IN IF fault
          THEN /\ Finish(p, Thrown(StoreFault, "DELETE", UsersUrl, OneFind))
               /\ UNCHANGED users
          ELSE IF old = Null
          THEN /\ Finish(p, Thrown(P2025, "DELETE", UsersUrl, OneFind))
               /\ UNCHANGED users
          ELSE /\ users' = users \ {old}
               /\ Finish(p, Returned(200, [void |-> TRUE], OneFind))
    /\ UNCHANGED <<nextId, now, req>>

----------------------------------------------------------------------------
(* Any other route handler *)

OtherUrl == "/health"

\* values a handler may throw besides the ones above
ThrownValues ==
    { HttpExceptionOf(403, StringResponse("Forbidden resource"),
                      "Forbidden resource"),
      HttpExceptionOf(400,
          ObjectResponse([message |-> Str("Validation failed"),
                          errors |-> Arr(<<"email must be an email">>)]),
          "Validation failed"),
      HttpExceptionOf(422, ObjectResponse([error |-> "Unprocessable"]),
                      "Http Exception"),
      ErrorValue("TypeError", "Cannot read properties of undefined"),
      ThrownString("boom") }

\* a handler throws and GlobalExceptionFilter.catch answers
HandlerThrows(p, exception) ==
    /\ pc[p] = "idle"
    /\ req' = [req EXCEPT ![p] = [op |-> "other"]]
    /\ Finish(p, Thrown(exception, "GET", OtherUrl, NoCalls))
    /\ UNCHANGED <<users, nextId, now>>

----------------------------------------------------------------------------
(* Health check *)

\* how the probe query SELECT 1 ends
Probes == {"resolves", "rejects"}

\* milliseconds between the two readings of Date.now()
Elapsed == {0, 5}

HealthFailedLog ==
    [context |-> "PrismaService", trace |-> "Database health check failed"]

\* variant: the probe is awaited without try/catch
HealthCheck_NoCatch(probe) ==
    IF probe = "resolves"
    THEN [threw |-> FALSE, value |-> TRUE, logged |-> NoLog]
    ELSE [threw |-> TRUE, error |-> StoreFault]

\* PrismaService.healthCheck: true when the probe resolves; a rejection is
\* caught, logged and answered false
HealthCheck(probe) ==
    IF probe = "resolves"
    THEN [threw |-> FALSE, value |-> TRUE, logged |-> NoLog]
    ELSE [threw |-> FALSE, value |-> FALSE, logged |-> HealthFailedLog]

\* the object HealthService.check returns
Check(dbHealthy, responseTime) ==
    [status |-> IF dbHealthy THEN "ok" ELSE "degraded",
     timestamp |-> ToISOString(ResponseInstant),
     uptime |-> "<process.uptime()>",
     checks |->
        [database |->
            [status |-> IF dbHealthy THEN "up" ELSE "down",
             responseTime |-> ToString(responseTime) \o "ms"]]]

\* GET /health: HealthService.check over a probe that ends as given
HealthRequest(p, probe, responseTime) ==
    /\ pc[p] = "idle"
    /\ req' = [req EXCEPT ![p] = [op |-> "health", probe |-> probe]]
    /\ LET dbHealthy == HealthCheck(probe)
       IN IF dbHealthy.threw
          THEN Finish(p, Thrown(dbHealthy.error, "GET", OtherUrl, NoCalls))
          ELSE Finish(p, [Returned(200,
                              Check(dbHealthy.value, responseTime), NoCalls)
                          EXCEPT !.http.logged = dbHealthy.logged])
    /\ UNCHANGED <<users, nextId, now>>

----------------------------------------------------------------------------
\* what concurrent calls are given: bodies that pass validation, and one
\* salt
ValidInputs ==
    [register |-> ValidRegisterBodies, login |-> LoginDtos, salt |-> {1}]

\* what a call may be given: any body, any salt
AllInputs ==
    [register |-> RegisterBodies, login |-> LoginBodies, salt |-> Salts]

\* the operations that suspend between two store accesses
AwaitingStep(p, In, Faults) ==
       \/ \E body \in In.register, fault \in Faults :
             RegisterLookup(p, body, fault)
       \/ \E salt \in In.salt, fails \in BOOLEAN :
             RegisterHash(p, salt, fails)
       \/ \E fault \in Faults : RegisterCreate(p, fault)
       \/ \E dto \in In.login, fault \in Faults : LoginLookup(p, dto, fault)
       \/ LoginCompare(p, FALSE)
       \/ \E dto \in CreateDtos, fault \in Faults :
             UsersCreateLookup(p, dto, fault)
       \/ \E fault \in Faults : UsersCreateInsert(p, fault)
       \/ \E id \in Ids, dto \in UpdateDtos, fault \in Faults :
             UsersUpdateCheck(p, id, dto, fault)
       \/ \E fault \in Faults : UsersUpdateWrite(p, fault)
       \/ \E id \in Ids, fault \in Faults : UsersRemoveCheck(p, id, fault)
       \/ \E fault \in Faults : UsersRemoveWrite(p, fault)

\* the operations that finish in one step
SingleStep(p, In, Faults) ==
       \/ \E body \in In.register : RegisterRejected(p, body)
       \/ \E body \in In.login : LoginRejected(p, body)
       \/ \E payload \in TokenPayloads, fault \in Faults :
             ValidateUser(p, payload, fault)
       \/ \E fault \in Faults : UsersFindAll(p, fault)
       \/ \E id \in Ids, fault \in Faults : UsersFindOne(p, id, fault)
       \/ \E exception \in ThrownValues : HandlerThrows(p, exception)

\* concurrent handlers over a store that answers
Next == \E p \in Procs : AwaitingStep(p, ValidInputs, {FALSE})

Spec == Init /\ [][Next]_vars

\* one handler, every operation, a store that may fail
NextSeq ==
    \E p \in {"h1"} :
       \/ AwaitingStep(p, AllInputs, BOOLEAN)
       \/ SingleStep(p, AllInputs, BOOLEAN)

SpecSeq == Init /\ [][NextSeq]_vars

\* one client registers, logs in and keeps the token, presents it to the
\* guard as time passes, while the row is updated or removed
NextTok ==
    \/ \E p \in {"h1"} :
          \/ \E body \in ValidRegisterBodies : RegisterLookup(p, body, FALSE)
          \/ \E salt \in Salts : RegisterHash(p, salt, FALSE)
          \/ RegisterCreate(p, FALSE)
          \/ \E dto \in LoginDtos : LoginLookup(p, dto, FALSE)
          \/ \E keep \in BOOLEAN : LoginCompare(p, keep)
          \/ \E id \in Ids, dto \in UpdateDtos :
                UsersUpdateCheck(p, id, dto, FALSE)
          \/ UsersUpdateWrite(p, FALSE)
          \/ \E id \in Ids : UsersRemoveCheck(p, id, FALSE)
          \/ UsersRemoveWrite(p, FALSE)
          \/ \E id \in Ids : UsersFindOne(p, id, FALSE)
          \/ \E token \in Presentable, fault \in BOOLEAN :
                Authenticate(p, token, fault)
          \/ \E fault \in BOOLEAN :
                held # NoToken /\ ValidateUser(p, held.claims, fault)
    \/ Tick

SpecTok == InitTok /\ [][NextTok]_vars

\* the application starts, or fails to, and answers logins and health
\* checks once it runs
NextEnv ==
    \/ Bootstrap
    \/ \E dto \in LoginDtos : LoginLookup("h1", dto, FALSE)
    \/ \E probe \in Probes, responseTime \in Elapsed :
          HealthRequest("h1", probe, responseTime)

SpecEnv == InitEnv /\ [][NextEnv]_vars

\* the awaits of register and login after the lookup: bcrypt.hash,
\* usersRepository.create and bcrypt.compare
Awaits == {"reg_hash", "reg_create", "login_compare"}

\* the operation p awaits never settles: the await carries no timeout, so
\* the continuation is never scheduled
Hang(p) ==
    /\ pc[p] \in Awaits
    /\ app.status = "running"
    /\ pc' = [pc EXCEPT ![p] = "hung"]
    /\ UNCHANGED <<app, held, users, nextId, now, req, loc, res>>

\* the continuation of p runs once the operation it awaits has settled
Continue(p) ==
    \/ \E salt \in Salts, fails \in BOOLEAN : RegisterHash(p, salt, fails)
    \/ \E fault \in BOOLEAN : RegisterCreate(p, fault)
    \/ LoginCompare(p, FALSE)

\* register and login over a store and a hasher that may fail or never
\* answer
NextLive ==
    \E p \in {"h1"} :
       \/ \E body \in ValidRegisterBodies, fault \in BOOLEAN :
             RegisterLookup(p, body, fault)
       \/ \E dto \in LoginDtos, fault \in BOOLEAN : LoginLookup(p, dto, fault)
       \/ Continue(p)
       \/ Hang(p)

\* the event loop runs every continuation whose awaited operation settled
SpecLive == Init /\ [][NextLive]_vars /\ WF_vars(Continue("h1"))

\* a row the table holds when the application starts: the database
\* outlives the process
StoredRow ==
    [id |-> 1,
     email |-> "c@d.com",
     passwordHash |-> BcryptHash("secret1", SALT_ROUNDS, 1),
     name |-> NullName,
     role |-> "USER",
     createdAt |-> 0,
     updatedAt |-> 0]

\* the application has started over a table that holds StoredRow
InitStored ==
    /\ app = Running(ValidateEnv(RequiredOnly).value)
    /\ held = NoToken
    /\ users = {StoredRow}
    /\ nextId = 2
    /\ now = 0
    /\ pc = [p \in Procs |-> "idle"]
    /\ req = [p \in Procs |-> NoReq]
    /\ loc = [p \in Procs |-> NoLoc]
    /\ res = [p \in Procs |-> Pending]

\* register, login, validateUser and update over a table with a row in it
NextStored ==
    \E p \in {"h1"} :
       \/ \E body \in ValidRegisterBodies, fault \in BOOLEAN :
             RegisterLookup(p, body, fault)
       \/ \E salt \in Salts, fails \in BOOLEAN : RegisterHash(p, salt, fails)
       \/ \E fault \in BOOLEAN : RegisterCreate(p, fault)
       \/ \E dto \in LoginDtos, fault \in BOOLEAN : LoginLookup(p, dto, fault)
       \/ LoginCompare(p, FALSE)
       \/ \E payload \in TokenPayloads, fault \in BOOLEAN :
             ValidateUser(p, payload, fault)
       \/ \E id \in Ids, dto \in UpdateDtos, fault \in BOOLEAN :
             UsersUpdateCheck(p, id, dto, fault)
       \/ \E fault \in BOOLEAN : UsersUpdateWrite(p, fault)

SpecStored == InitStored /\ [][NextStored]_vars

----------------------------------------------------------------------------
(* Properties *)

IsReturn(p) == res[p].out = "return"
IsThrow(p) == res[p].out = "throw"
Body(p) == res[p].http.body
Status(p) == res[p].http.status

\* handler p takes a step that begins a call of op
Starts(p, op) ==
    /\ pc[p] = "idle"
    /\ req'[p].op = op
    /\ (pc'[p] # "idle" \/ res'[p] # res[p] \/ req'[p] # req[p])

\* the response of p is the 409 of the pre-check
IsEmailConflict(r) ==
    /\ r.out = "throw"
    /\ r.http.status = 409
    /\ r.http.body.statusCode = 409
    /\ r.http.body.message = Str("Email already exists")

\* the response of p is the 401 of a failed login
IsInvalidCredentials(r) ==
    /\ r.out = "throw"
    /\ r.http.status = 401
    /\ r.http.body.statusCode = 401
    /\ r.http.body.message = Str("Invalid credentials")
    /\ "errors" \notin DOMAIN r.http.body

\* p created a user and got its profile back
CreatedUser(p) ==
    /\ req[p].op \in {"register", "users.create"}
    /\ IsReturn(p)

StillStored(p) == \E u \in users : u.id = Body(p).id

\* C1: the store never holds two rows with one email, and of the register
\* and UsersService.create calls that returned success for one email and
\* whose row has not been removed, there is at most one.
C1_EmailUnique ==
    /\ \A u, v \in users : u.email = v.email => u = v
    /\ \A p, q \in Procs :
          ( /\ CreatedUser(p) /\ CreatedUser(q)
            /\ StillStored(p) /\ StillStored(q)
            /\ Body(p).email = Body(q).email ) => p = q

\* two calls for one email both passed the pre-check; one inserted, the
\* other one's insert was refused
C1_Witness ==
    \E p, q \in Procs :
       /\ p # q
       /\ CreatedUser(p) /\ StillStored(p)
       /\ req[q].op \in {"register", "users.create"}
       /\ IsThrow(q)
       /\ res[q].calls.create = 1
       /\ req[q].body.email = Body(p).email

\* C2: a register whose insert the unique index refused answers like the
\* pre-check: 409 "Email already exists".  (Under Spec the store answers
\* every call, so a register that reached create and threw was refused by
\* the index.)
C2_RaceLoserGetsConflict ==
    \A p \in Procs :
       ( /\ req[p].op = "register"
         /\ IsThrow(p)
         /\ res[p].calls.create = 1 ) => IsEmailConflict(res[p])

\* C3: a register for an email that has a row ends at once with 409
\* "Email already exists", calls neither the hasher nor the insert, and
\* leaves the table as it was.
C3_SequentialDuplicate ==
    [][ \A p \in Procs :
          ( /\ Starts(p, "register")
            /\ \E u \in users : u.email = req'[p].body.email )
          => /\ pc'[p] = "idle"
             /\ IsEmailConflict(res'[p])
             /\ res'[p].calls.hash = 0
             /\ res'[p].calls.create = 0
             /\ users' = users ]_vars

\* one register returned 201 with the profile of a row that is still
\* there, a later register for that email got the 409
C3_Witness ==
    \E p, q \in Procs :
       /\ p # q
       /\ req[p].op = "register" /\ IsReturn(p) /\ Status(p) = 201
       /\ StillStored(p)
       /\ req[q].op = "register"
       /\ req[q].body.email = Body(p).email
       /\ IsEmailConflict(res[q])
       /\ res[q].calls.hash = 0

WithoutTimestamp(body) == [k \in (DOMAIN body) \ {"timestamp"} |-> body[k]]

\* a login that failed because no row has the email
FailedUnknownEmail(p) ==
    req[p].op = "login" /\ IsThrow(p) /\ res[p].calls.compare = 0

\* a login that failed because bcrypt.compare said no
FailedWrongPassword(p) ==
    req[p].op = "login" /\ IsThrow(p) /\ res[p].calls.compare = 1

\* C4: a login refused for an unknown email and a login refused for a wrong
\* password answer alike: 401, message "Invalid credentials", no errors
\* field, and bodies that differ at most in the timestamp.
C4_EnumerationResistance ==
    \A p, q \in Procs :
       (FailedUnknownEmail(p) /\ FailedWrongPassword(q))
       => /\ IsInvalidCredentials(res[p])
          /\ IsInvalidCredentials(res[q])
          /\ Status(p) = Status(q)
          /\ WithoutTimestamp(Body(p)) = WithoutTimestamp(Body(q))

C4_Witness ==
    \E p, q \in Procs : FailedUnknownEmail(p) /\ FailedWrongPassword(q)

\* the profiles a returned value carries
ProfilesOf(p) ==
    IF req[p].op = "login" THEN {Body(p).user}
    ELSE IF req[p].op = "users.findAll"
         THEN {Body(p)[i] : i \in DOMAIN Body(p)}
    ELSE IF req[p].op = "users.remove" THEN {}
    ELSE {Body(p)}

\* C5: every profile returned by register, login, validateUser and the
\* UsersService operations has only the fields id, email, name, role,
\* createdAt and updatedAt, and in particular no passwordHash.
C5_NoSecretLeak ==
    \A p \in Procs :
       IsReturn(p) =>
          \A profile \in ProfilesOf(p) :
             /\ DOMAIN profile \subseteq ExposedFields
             /\ "passwordHash" \notin DOMAIN profile

\* a login returned the profile of a row that has a passwordHash
C5_Witness ==
    \E p \in Procs :
       /\ req[p].op = "login" /\ IsReturn(p)
       /\ \E u \in users :
             /\ "passwordHash" \in DOMAIN u
             /\ u.id = Body(p).user.id

\* the stored digest is a bcrypt digest of the supplied password
DigestOf(password, digest) ==
    digest.fmt = "bcrypt" /\ digest.pw = password

\* C6: login signs a token only for a row that had the supplied email and
\* whose stored digest is a digest of the supplied password; with no row,
\* or with another digest, it answers 401 "Invalid credentials" and signs
\* nothing.
C6_TokenIssuance ==
    [][ \A p \in Procs :
          /\ Starts(p, "login") =>
                IF \E u \in users : u.email = req'[p].body.email
                THEN /\ pc'[p] = "login_compare"
                     /\ loc'[p].user \in users
                     /\ loc'[p].user.email = req'[p].body.email
                ELSE /\ pc'[p] = "idle"
                     /\ IsInvalidCredentials(res'[p])
                     /\ res'[p].calls.sign = 0
          /\ (pc[p] = "login_compare" /\ pc'[p] = "idle") =>
                IF DigestOf(req[p].body.password, loc[p].user.passwordHash)
                THEN /\ res'[p].out = "return"
                     /\ res'[p].calls.sign = 1
                     /\ "accessToken" \in DOMAIN res'[p].http.body
                ELSE /\ IsInvalidCredentials(res'[p])
                     /\ res'[p].calls.sign = 0 ]_vars

\* one login got a token while another, with the wrong password, got none
C6_Witness ==
    \E p, q \in Procs :
       /\ req[p].op = "login" /\ IsReturn(p) /\ res[p].calls.sign = 1
       /\ FailedWrongPassword(q) /\ res[q].calls.sign = 0

\* q registered row u and u is in the table as register left it
Registered(q, u) ==
    /\ req[q].op = "register"
    /\ IsReturn(q)
    /\ Body(q) = PlainToInstance(u)
    /\ u.updatedAt = u.createdAt

\* C7: while the row a successful register(e, p) created is in the table,
\* not updated, a login(e, p) ends with 200 and {user, accessToken}, user
\* being the profile register returned.  (Spec: the store answers.)
C7_RegisterLoginRoundTrip ==
    [][ \A p, q \in Procs :
          \A u \in users :
             Registered(q, u) =>
                /\ ( /\ Starts(p, "login")
                     /\ req'[p].body = [email |-> req[q].body.email,
                                        password |-> req[q].body.password] )
                   => /\ pc'[p] = "login_compare"
                      /\ loc'[p].user = u
                /\ ( /\ pc[p] = "login_compare"
                     /\ pc'[p] = "idle"
                     /\ loc[p].user = u
                     /\ req[p].body = [email |-> req[q].body.email,
                                       password |-> req[q].body.password] )
                   => /\ res'[p].out = "return"
                      /\ res'[p].http.status = 200
                      /\ DOMAIN res'[p].http.body = {"user", "accessToken"}
                      /\ res'[p].http.body.user = Body(q) ]_vars

C7_Witness ==
    \E p, q \in Procs :
       \E u \in users :
          /\ Registered(q, u)
          /\ req[p].op = "login"
          /\ req[p].body.email = req[q].body.email
          /\ req[p].body.password = req[q].body.password
          /\ IsReturn(p) /\ Status(p) = 200
          /\ Body(p).user = Body(q)

\* C8: a thrown value that is not an HttpException is answered with 500
\* and the message "Internal server error", never with its own message.
C8_Generic500 ==
    \A p \in Procs :
       (IsThrow(p) /\ res[p].exception.kind # "HttpException")
       => /\ Status(p) = INTERNAL_SERVER_ERROR
          /\ Body(p).message = Str(GenericMessage)

\* C9: the body of every error response has statusCode (a number), message
\* (a string), timestamp and path, and has errors exactly when the
\* exception's response object carries errors.
C9_UniformEnvelope ==
    \A p \in Procs :
       IsThrow(p) =>
          /\ {"statusCode", "message", "timestamp", "path"}
                \subseteq DOMAIN Body(p)
          /\ DOMAIN Body(p) \subseteq
                {"statusCode", "message", "timestamp", "path", "errors"}
          /\ Body(p).statusCode \in Nat
          /\ Body(p).message.t = "string"
          /\ ("errors" \in DOMAIN Body(p)) <=>
                ( /\ res[p].exception.kind = "HttpException"
                  /\ res[p].exception.response.type = "object"
                  /\ "errors" \in DOMAIN res[p].exception.response.obj )

\* C10: for an HttpException the HTTP status and the body's statusCode are
\* exception.getStatus(): 400 for a rejected body, 409 for the duplicate
\* email of the pre-check, 401 for bad credentials, 404 for an unknown id;
\* any other thrown value gives 500.
C10_StatusMapping ==
    \A p \in Procs :
       IsThrow(p) =>
          LET e == res[p].exception
              expected ==
                 IF e.kind # "HttpException" THEN 500
                 ELSE IF e = ConflictException("Email already exists")
                      THEN 409
                 ELSE IF e.response.type = "object"
                         /\ "error" \in DOMAIN e.response.obj
                         /\ e.response.obj.error = "Unauthorized" THEN 401
                 ELSE IF e.response.type = "object"
                         /\ "error" \in DOMAIN e.response.obj
                         /\ e.response.obj.error = "Not Found" THEN 404
                 ELSE IF e.response.type = "object"
                         /\ "error" \in DOMAIN e.response.obj
                         /\ e.response.obj.error = "Bad Request" THEN 400
                 ELSE e.status
          IN /\ Status(p) = expected
             /\ Body(p).statusCode = expected
             /\ (req[p].op = "register"
                   /\ ValidateRegister(req[p].body) # <<>>) => Status(p) = 400
             /\ (req[p].op = "users.findOne"
                   /\ e.kind = "HttpException") => Status(p) = 404

\* an unknown id was answered with 404
C10_Witness ==
    \E p \in Procs :
       /\ req[p].op = "users.findOne"
       /\ IsThrow(p)
       /\ res[p].exception.kind = "HttpException"
       /\ Status(p) = 404
       /\ Body(p).statusCode = 404

\* the response of p is the ValidationPipe's rejection of the body
RejectedByPipe(p) ==
    /\ req[p].op \in {"register", "login"}
    /\ IsThrow(p)
    /\ res[p].calls = NoCalls

\* C11: a register or login body that fails validation is answered with
\* 400 and a body that has a message and an errors list holding the
\* field-level violations.
C11_ValidationDetail ==
    \A p \in Procs :
       RejectedByPipe(p) =>
          /\ Status(p) = 400
          /\ Body(p).statusCode = 400
          /\ "message" \in DOMAIN Body(p)
          /\ "errors" \in DOMAIN Body(p)
          /\ Body(p).errors.t = "array"
          /\ Len(Body(p).errors.v) > 0

\* the text of message m names property k
Names(m, k) ==
    \E rest \in {" should not exist", " should not be empty",
                 " must be an email", " must be a string"} :
       m \in {k \o rest, "property " \o k \o rest}

\* C12: a register body with a property other than email, password and
\* name is answered with 400 and a message naming the property; the
\* service is not entered, so nothing is looked up, hashed or inserted
\* with the property left out.
C12_RejectUnknown ==
    [][ \A p \in Procs :
          ( /\ Starts(p, "register")
            /\ ~(DOMAIN req'[p].body \subseteq RegisterFields) )
          => /\ pc'[p] = "idle"
             /\ res'[p].out = "throw"
             /\ res'[p].http.status = 400
             /\ res'[p].calls = NoCalls
             /\ \A k \in (DOMAIN req'[p].body) \ RegisterFields :
                   \E i \in DOMAIN res'[p].http.body.message.v :
                      Names(res'[p].http.body.message.v[i], k)
             /\ users' = users ]_vars

\* a body that carries role beside a valid email and password was refused
C12_Witness ==
    \E p \in Procs :
       /\ req[p].op = "register"
       /\ "role" \in DOMAIN req[p].body
       /\ RegisterConstraints(req[p].body) = <<>>
       /\ IsThrow(p)
       /\ Status(p) = 400
       /\ res[p].calls = NoCalls

\* the body breaks a constraint of RegisterDto
BreaksRegisterDto(body) ==
    \/ Field(body, "email") = Undefined
    \/ Field(body, "email") \notin WellFormedEmails
    \/ Field(body, "password") = Undefined
    \/ Len(Field(body, "password")) < 6

\* the body breaks a constraint of LoginDto
BreaksLoginDto(body) ==
    \/ Field(body, "email") = Undefined
    \/ Field(body, "email") \notin WellFormedEmails
    \/ Field(body, "password") = Undefined

\* C13: a register or login whose body breaks a DTO constraint (email
\* missing or malformed, password missing, password shorter than 6 on
\* register) ends at once with 400; AuthService is not entered: no lookup,
\* no hash, no insert, no compare, no signature, and the table is as it
\* was.
C13_ValidationFirst ==
    [][ \A p \in Procs :
          ( \/ Starts(p, "register") /\ BreaksRegisterDto(req'[p].body)
            \/ Starts(p, "login") /\ BreaksLoginDto(req'[p].body) )
          => /\ pc'[p] = "idle"
             /\ res'[p].out = "throw"
             /\ res'[p].http.status = 400
             /\ res'[p].calls = NoCalls
             /\ users' = users ]_vars

\* a register for a stored email with too short a password was refused
\* before the lookup that would have answered 409
C13_Witness ==
    \E p \in Procs :
       /\ req[p].op = "register"
       /\ Field(req[p].body, "password") = ShortPassword
       /\ \E u \in users : u.email = req[p].body.email
       /\ IsThrow(p)
       /\ Status(p) = 400
       /\ res[p].calls = NoCalls

\* p is inside register, or about to get its answer
InRegister(p) == req[p].op = "register" /\ pc[p] \in {"reg_hash", "reg_create"}

\* C14: a row register inserts has role USER, and so has the profile it
\* returns; no step of a register touches a row that is already there; a
\* body carrying a role is refused with 400 before the service is entered.
C14_RoleFixed ==
    [][ \A p \in Procs :
          /\ (Starts(p, "register") /\ "role" \in DOMAIN req'[p].body)
             => /\ pc'[p] = "idle"
                /\ res'[p].out = "throw"
                /\ res'[p].http.status = 400
                /\ res'[p].calls = NoCalls
                /\ users' = users
          /\ (InRegister(p) /\ pc'[p] # pc[p])
             => /\ users \subseteq users'
                /\ \A u \in users' \ users :
                      /\ u.role = "USER"
                      /\ res'[p].out = "return"
                      /\ res'[p].http.body.role = "USER" ]_vars

\* a register that sent a name got 201 and a USER profile, and the row it
\* made is a USER
C14_Witness ==
    \E p \in Procs :
       /\ req[p].op = "register"
       /\ "name" \in DOMAIN req[p].body
       /\ IsReturn(p)
       /\ Status(p) = 201
       /\ Body(p).role = "USER"
       /\ \E u \in users : u.id = Body(p).id /\ u.role = "USER"

\* the response of p is the 500 of a failed hash
IsHashFailure(r) ==
    /\ r.out = "throw"
    /\ r.http.status = INTERNAL_SERVER_ERROR
    /\ r.http.body.statusCode = INTERNAL_SERVER_ERROR
    /\ r.http.body.message = Str("Failed to hash password")

\* C15: the await on the hasher ends in one of two ways: register goes on
\* to the insert holding a bcrypt digest of the password at cost
\* SALT_ROUNDS, or, the hasher having failed, register ends with 500,
\* having inserted nothing; and no row register inserts holds the password
\* itself as passwordHash.
C15_HashFailureFatal ==
    [][ \A p \in Procs :
          /\ (pc[p] = "reg_hash" /\ pc'[p] # pc[p])
             => \/ /\ pc'[p] = "reg_create"
                   /\ DigestOf(req[p].body.password, loc'[p].passwordHash)
                   /\ loc'[p].passwordHash.cost = SALT_ROUNDS
                   /\ users' = users
                \/ /\ pc'[p] = "idle"
                   /\ IsHashFailure(res'[p])
                   /\ res'[p].calls.hash = 1
                   /\ res'[p].calls.create = 0
                   /\ users' = users
          /\ (pc[p] = "reg_create" /\ pc'[p] # pc[p])
             => \A u \in users' \ users :
                   /\ u.passwordHash # RawString(req[p].body.password)
                   /\ DigestOf(req[p].body.password, u.passwordHash) ]_vars

\* a register whose hash failed got the 500 and left no row for its email
C15_Witness ==
    \E p \in Procs :
       /\ req[p].op = "register"
       /\ IsHashFailure(res[p])
       /\ res[p].calls.hash = 1
       /\ res[p].calls.create = 0
       /\ ~ \E u \in users : u.email = req[p].body.email

\* case normalisation of the addresses in use
ToLowerCase(email) == IF email = MixedCaseEmail THEN "a@b.com" ELSE email

SameAddress(e, f) == ToLowerCase(e) = ToLowerCase(f)

\* C16: emails are stored and compared case-normalized: no two rows have
\* emails equal after case normalization, every stored email is in normal
\* form, a register for an address that a row has in another letter case
\* gets the 409, and a login with it reaches that row.  (An answer that
\* reports a failed store call is left aside.)
C16_CaseNormalizedEmail ==
    [][ /\ \A u, v \in users' : SameAddress(u.email, v.email) => u = v
        /\ \A u \in users' : u.email = ToLowerCase(u.email)
        /\ \A p \in Procs :
              \A u \in users :
                 /\ ( /\ Starts(p, "register")
                      /\ ValidateRegister(req'[p].body) = <<>>
                      /\ SameAddress(u.email, req'[p].body.email) )
                    => \/ IsEmailConflict(res'[p])
                       \/ res'[p].out = "throw"
                            /\ res'[p].exception = StoreFault
                 /\ ( /\ Starts(p, "login")
                      /\ ValidateLogin(req'[p].body) = <<>>
                      /\ SameAddress(u.email, req'[p].body.email) )
                    => \/ pc'[p] = "login_compare" /\ loc'[p].user = u
                       \/ res'[p].out = "throw"
                            /\ res'[p].exception = StoreFault ]_vars

\* validateUser is called with the claims of the token the client holds,
\* the token not yet expired
ValidatesHeld(p) ==
    /\ Starts(p, "validateUser")
    /\ held # NoToken
    /\ req'[p].body = held.claims
    /\ now < held.exp

\* the store failed to answer p
IsStoreFault(r) == r.out = "throw" /\ r.exception = StoreFault

\* C17 (as claimed): before its expiry a token login issued is accepted,
\* whatever was done to the store since, the removal of its user included.
\* (An answer that reports a failed store call is left aside.)
C17_NoRevocation ==
    [][ \A p \in Procs :
          ValidatesHeld(p) =>
             \/ res'[p].out = "return"
             \/ IsStoreFault(res'[p]) ]_vars

\* C17 (amended): before its expiry a token login issued is accepted as
\* long as the row with its userId is in the table, and the answer is that
\* row's profile; once the row is removed the answer is 401 "User not
\* found".
C17_ValidWhileUserStored ==
    [][ \A p \in Procs :
          ValidatesHeld(p) =>
             \/ IsStoreFault(res'[p])
             \/ IF \E u \in users : u.id = held.claims.userId
                THEN /\ res'[p].out = "return"
                     /\ res'[p].http.status = 200
                     /\ \E u \in users :
                           /\ u.id = held.claims.userId
                           /\ res'[p].http.body = PlainToInstance(u)
                ELSE /\ res'[p].out = "throw"
                     /\ res'[p].http.status = 401
                     /\ res'[p].http.body.message = Str("User not found") ]_vars

\* the user of the held token was removed and validateUser refused the
\* token's claims before the token expired
C17_Witness ==
    \E p \in Procs :
       /\ held # NoToken
       /\ now < held.exp
       /\ req[p].op = "validateUser"
       /\ req[p].body = held.claims
       /\ ~ \E u \in users : u.id = held.claims.userId
       /\ IsThrow(p)
       /\ Status(p) = 401
       /\ Body(p).message = Str("User not found")

\* the seconds of the model's horizon
Instants == 0..(MaxTime + 1)

\* C18: the token a login returns carries the claims userId and email and
\* no other, equal to the id and email of the row the password was checked
\* against; verified at any instant from its issue to before its expiry it
\* yields those claims, and the guard hands them to validateUser.
C18_TokenRoundTrip ==
    [][ \A p \in Procs :
          /\ (pc[p] = "login_compare" /\ res'[p].out = "return")
             => LET token == res'[p].http.body.accessToken
                IN /\ DOMAIN token.claims = {"userId", "email"}
                   /\ token.claims.userId = loc[p].user.id
                   /\ token.claims.email = loc[p].user.email
                   /\ token.claims.email = req[p].body.email
                   /\ \A t \in Instants :
                         (token.iat <= t /\ t < token.exp)
                         => JwtVerify(token, app.config.JWT_SECRET, t)
                               = [ok |-> TRUE, claims |-> token.claims]
          /\ ( /\ Starts(p, "authenticate")
               /\ req'[p].token = held
               /\ now < held.exp )
             => /\ res'[p].calls.find = 1
                /\ res'[p].out = "return"
                   => res'[p].http.body.id = held.claims.userId ]_vars

\* the guard let the held token through and answered with the profile of
\* the user in its claims
C18_Witness ==
    \E p \in Procs :
       /\ held # NoToken
       /\ req[p].op = "authenticate"
       /\ req[p].token = held
       /\ IsReturn(p)
       /\ Body(p).id = held.claims.userId
       /\ Body(p).email = held.claims.email

LacksRequired(env) ==
    \/ env.JWT_SECRET = Undefined
    \/ Len(env.JWT_SECRET) < 32
    \/ env.DATABASE_URL = Undefined
    \/ env.DATABASE_URL \notin Urls

AllThree == [NoCalls EXCEPT !.find = 1, !.hash = 1, !.create = 1]

\* C21: within one register call the hash is started only by a call whose
\* lookup has completed and found no row for the email; the insert is
\* started only by a call whose hash has completed with a digest of the
\* password; and the insert is issued only by a call that stands there,
\* after exactly one lookup and one hash.
C21_StepOrdering ==
    [][ \A p \in Procs :
          /\ (pc'[p] = "reg_hash" /\ pc[p] # "reg_hash")
             => /\ pc[p] = "idle"
                /\ req'[p].op = "register"
                /\ ~ \E u \in users : u.email = req'[p].body.email
                /\ loc'[p].calls = OneFind
          /\ (pc'[p] = "reg_create" /\ pc[p] # "reg_create")
             => /\ pc[p] = "reg_hash"
                /\ loc[p].calls = OneFind
                /\ loc'[p].calls = [OneFind EXCEPT !.hash = 1]
                /\ DigestOf(req[p].body.password, loc'[p].passwordHash)
          /\ (pc'[p] = "idle" /\ pc[p] # "idle" /\ req[p].op = "register"
                /\ res'[p].calls.create > 0)
             => /\ pc[p] = "reg_create"
                /\ loc[p].calls = [OneFind EXCEPT !.hash = 1]
                /\ DigestOf(req[p].body.password, loc[p].passwordHash)
                /\ res'[p].calls = AllThree
          /\ (req[p].op = "register" /\ users' # users /\ pc[p] # pc'[p])
             => pc[p] = "reg_create" ]_vars

\* a register went through lookup, hash and insert and its row is stored
C21_Witness ==
    \E p \in Procs :
       /\ req[p].op = "register"
       /\ IsReturn(p)
       /\ res[p].calls = AllThree
       /\ \E u \in users :
             /\ u.email = req[p].body.email
             /\ DigestOf(req[p].body.password, u.passwordHash)

\* the errors a store call of register or login rejects with
StoreErrors == {StoreFault, P2002}

\* the outcome r is a store error that went through the filter untouched
IsPropagated(r) ==
    /\ r.out = "throw"
    /\ r.exception \in StoreErrors
    /\ r.http.status = INTERNAL_SERVER_ERROR
    /\ r.http.body.statusCode = INTERNAL_SERVER_ERROR
    /\ "accessToken" \notin DOMAIN r.http.body

HasRow(email) == \E u \in users : u.email = email

\* C22: every outcome of a register or login step other than the
\* propagated store error has its own cause in the store: a 409 only when
\* the lookup found a row, a 401 only when it found none or the digest did
\* not match, a 201 only with the row inserted, a 200 with a token only for
\* a stored row; a store error ends the call with a thrown error answered
\* 500, without a token and without a row.
C22_NoSuppression ==
    [][ \A p \in Procs :
          /\ (Starts(p, "register") /\ pc'[p] = "idle"
                /\ ValidateRegister(req'[p].body) = <<>>)
             => \/ IsPropagated(res'[p])
                \/ IsEmailConflict(res'[p]) /\ HasRow(req'[p].body.email)
          /\ (pc[p] = "reg_create" /\ pc'[p] = "idle")
             => \/ IsPropagated(res'[p]) /\ users' = users
                \/ /\ res'[p].out = "return"
                   /\ ~ HasRow(req[p].body.email)
                   /\ \E u \in users' \ users : u.email = req[p].body.email
          /\ (Starts(p, "login") /\ pc'[p] = "idle"
                /\ ValidateLogin(req'[p].body) = <<>>)
             => \/ IsPropagated(res'[p])
                \/ /\ IsInvalidCredentials(res'[p])
                   /\ ~ HasRow(req'[p].body.email)
          /\ (pc[p] = "login_compare" /\ pc'[p] = "idle")
             => \/ /\ IsInvalidCredentials(res'[p])
                   /\ ~ DigestOf(req[p].body.password,
                                 loc[p].user.passwordHash)
                \/ /\ res'[p].out = "return"
                   /\ loc[p].user.email = req[p].body.email
                   /\ DigestOf(req[p].body.password,
                               loc[p].user.passwordHash)
          /\ (req'[p].op \in {"register", "login"}
                /\ res'[p].out = "throw"
                /\ res'[p].exception.kind # "HttpException")
             => IsPropagated(res'[p]) /\ users' = users ]_vars

\* a login whose lookup failed although the row for its email is stored
\* was answered 500 and got no token
C22_Witness ==
    \E p \in Procs :
       /\ req[p].op = "login"
       /\ IsPropagated(res[p])
       /\ res[p].exception = StoreFault
       /\ res[p].calls.sign = 0
       /\ HasRow(req[p].body.email)

\* C23: every register or login request that has been accepted is
\* eventually answered, also when an operation it awaits never settles.
C23_BoundedResponse ==
    \A p \in Procs : (pc[p] # "idle") ~> (pc[p] = "idle")

\* C24: the passwordHash of every stored row is a digest bcrypt.hash
\* produced at cost SALT_ROUNDS, never a string a caller supplied.
C24_DigestProvenance ==
    \A u \in users :
       /\ u.passwordHash.fmt = "bcrypt"
       /\ u.passwordHash.cost = SALT_ROUNDS
       /\ u.passwordHash.salt \in Salts

\* p has been answered for an update or a remove
AnsweredWrite(p) ==
    /\ pc[p] = "idle"
    /\ req[p].op \in {"users.update", "users.remove"}
    /\ res[p].out # "pending"

\* C25: whatever the interleaving, an update or a remove of an id ends in
\* success or in 404 "User with ID <id> not found", never in another
\* error.
C25_ConcurrentWrites ==
    \A p \in Procs :
       AnsweredWrite(p)
          => \/ IsReturn(p)
             \/ /\ IsThrow(p)
                /\ Status(p) = 404
                /\ Body(p).message = Str(NotFoundMessage(req[p].id))

ByIdOps == {"users.findOne", "users.update", "users.remove"}

\* the response r is the 404 for id
IsNotFound(r, id) ==
    /\ r.out = "throw"
    /\ r.http.status = 404
    /\ r.http.body.statusCode = 404
    /\ r.http.body.message = Str(NotFoundMessage(id))

\* C26: findOne, update and remove called with an id that has no row end
\* at once with 404 "User with ID <id> not found", after the one lookup:
\* the call never comes to stand before the repository's update or delete,
\* and the table is left as it was.
C26_MissingId ==
    [][ \A p \in Procs :
          (/\ \E op \in ByIdOps : Starts(p, op)
           /\ ~ \E u \in users : u.id = req'[p].id)
          => /\ IsNotFound(res'[p], req'[p].id)
             /\ res'[p].calls = OneFind
             /\ pc'[p] = "idle"
             /\ users' = users ]_vars

\* an update of an id that has no row was answered 404 while another row
\* is stored
C26_Witness ==
    \E p \in Procs :
       /\ req[p].op = "users.update"
       /\ pc[p] = "idle"
       /\ IsNotFound(res[p], req[p].id)
       /\ ~ \E u \in users : u.id = req[p].id
       /\ users # {}

\* C27: while register, login, validateUser and update run, a row keeps
\* the id, email and role it was inserted with: a row that stays has them
\* unchanged, no row leaves the table, a new row takes the next id, which
\* no row has had, and the write of an update leaves every row but the one
\* with its id as it was.
C27_IdentityImmutable ==
    [][ /\ \A u \in users :
             /\ u.id < nextId
             /\ \E v \in users' :
                   /\ v.id = u.id
                   /\ v.email = u.email
                   /\ v.role = u.role
                   /\ \A w \in users' : w.id = u.id => w = v
        /\ \A v \in users' :
             (\A u \in users : u.id # v.id)
             => v.id = nextId /\ nextId' = nextId + 1
        /\ \A p \in Procs :
             (pc[p] = "update_write" /\ pc'[p] = "idle")
             => \A u \in users : u.id # req[p].id => u \in users' ]_vars

\* an update was written to one of two stored rows: the row has the new
\* passwordHash and the other row is there
C27_Witness ==
    \E p \in Procs :
       /\ req[p].op = "users.update"
       /\ pc[p] = "idle"
       /\ IsReturn(p)
       /\ \E u, v \in users :
             /\ u.id = req[p].id
             /\ u.passwordHash = req[p].body.passwordHash
             /\ u.updatedAt > u.createdAt
             /\ v.id # u.id

\* C28: no step of a login or of a validateUser changes the table,
\* whatever its outcome; and of the steps of a register only the insert
\* that returns the profile changes it, so a register that ends in 409, in
\* the 500 of a failed hash or in a store error leaves it as it was.
C28_ReadOnly ==
    [][ \A p \in Procs :
          /\ (req'[p].op \in {"login", "validateUser"}
                /\ (pc'[p] # pc[p] \/ res'[p] # res[p] \/ req'[p] # req[p]))
             => users' = users /\ nextId' = nextId
          /\ (req'[p].op = "register"
                /\ (pc'[p] # pc[p] \/ res'[p] # res[p] \/ req'[p] # req[p])
                /\ ~ (pc[p] = "reg_create" /\ res'[p].out = "return"))
             => users' = users /\ nextId' = nextId ]_vars

\* a login succeeded and the row it read is as register inserted it
C28_Witness ==
    \E p \in Procs :
       /\ req[p].op = "login"
       /\ IsReturn(p)
       /\ res[p].calls.sign = 1
       /\ \E u \in users :
             /\ u.id = Body(p).user.id
             /\ u.updatedAt = u.createdAt
             /\ u.passwordHash.cost = SALT_ROUNDS

\* C29: a health check is always answered, never thrown: when the probe
\* query rejects, healthCheck has logged the failure and returned false;
\* the answer says "ok" with the database "up" exactly when healthCheck
\* returned true, and "degraded" with the database "down" otherwise.
C29_HealthFailsClosed ==
    \A p \in Procs :
       (req[p].op = "health" /\ res[p].out # "pending")
       => /\ IsReturn(p)
          /\ Status(p) = 200
          /\ req[p].probe = "rejects"
             => /\ ~ HealthCheck(req[p].probe).value
                /\ res[p].http.logged = HealthFailedLog
                /\ Body(p).status = "degraded"
          /\ IF HealthCheck(req[p].probe).value
             THEN /\ Body(p).status = "ok"
                  /\ Body(p).checks.database.status = "up"
                  /\ req[p].probe = "resolves"
             ELSE /\ Body(p).status = "degraded"
                  /\ Body(p).checks.database.status = "down"

\* a health check whose probe was rejected was answered degraded and down
C29_Witness ==
    \E p \in Procs :
       /\ req[p].op = "health"
       /\ req[p].probe = "rejects"
       /\ IsReturn(p)
       /\ Body(p).status = "degraded"
       /\ Body(p).checks.database.status = "down"

====
